---- MODULE Spec2Model ----
(***************************************************************************)
(* Model of strix/tools/orchestration/orchestration_actions.py: the task   *)
(* store, the capacity registry, assignment, completion and workflow       *)
(* expansion, with the team, broadcast and sync-point registries.          *)
(*                                                                         *)
(* Every tool function is a synchronous Python function without awaits or  *)
(* locks.  With one caller at a time a call runs to its return before the  *)
(* next starts, so each call is one action.  A handler is an operator from *)
(* the registries it reads and its arguments to the registries it writes   *)
(* and the dictionary it returns; the action applies it and records the    *)
(* call with its success flag and error in `last`.  With callers on        *)
(* several threads nothing orders the statements of two calls: SpecAssign  *)
(* splits assign_task into its checks and its write, and `callers` holds   *)
(* what each caller has in hand between the two.                           *)
(*                                                                         *)
(* Left out of a task: title, description, estimated_minutes and the       *)
(* created_at/updated_at/started_at stamps (stored, never read by any      *)
(* handler).  completed_at is kept as set/unset.  The `error` of a return  *)
(* value is the name of the return site (the code returns a message).      *)
(* Left out of a broadcast record: message, priority and sent_at; of a     *)
(* team and a sync point: name, description and created_at (stored as      *)
(* given, never read or written again).                                    *)
(***************************************************************************)
EXTENDS Integers, Sequences, FiniteSets, TLC

VARIABLES tasks, workflows, teams, agent_capacities, sync_points, messages, last,
          callers

vars == <<tasks, workflows, teams, agent_capacities, sync_points, messages, last,
          callers>>

registries == <<tasks, workflows, teams, agent_capacities, sync_points, messages>>

----------------------------------------------------------------------------
(* Bounds of the model *)

\* tasks ever created (task ids are 1..MaxTasks, in creation order)
MaxTasks == 2

\* length of a depends_on list given to create_task
MaxDeps == 2

\* workflows ever created
MaxWorkflows == 1

\* steps of a workflow given to create_workflow
MaxSteps == 3

\* expansions of one workflow
MaxExpansions == 2

\* teams ever created
MaxTeams == 1

\* messages ever broadcast
MaxMessages == 2

\* length of an initial_members, target_agents or required_agents list
MaxMembers == 2

\* sync points ever created
MaxSyncPoints == 2

\* tasks ever created where a workflow is expanded and run to the end
MaxRunTasks == 4

\* tasks ever created where one agent is loaded with tasks
MaxLoad == 6

----------------------------------------------------------------------------
(* Values *)

None == "None"

Truthy(x) == x # None /\ x # ""

TASK_STATUSES == <<"pending", "assigned", "in_progress", "completed", "failed", "blocked">>

PRIORITY_LEVELS == <<"critical", "high", "medium", "low">>

Range(s) == {s[i] : i \in 1..Len(s)}

TaskIds == 1..MaxTasks

LoadIds == 1..MaxLoad

\* line 155: the limit read from a capacity record that has no max_concurrent
DefaultMaxConcurrent == 5

Agents == {"a1", "a2"}

\* the threads that call the tools at the same time
Callers == {"c1", "c2"}

\* a caller that is in no call
Idle == [pc |-> "idle"]

\* priority arguments: a valid level and a string that is no level
PriorityInputs == {"medium", "urgent"}

RECURSIVE SeqsUpTo(_, _)
SeqsUpTo(S, n) ==
    IF n = 0 THEN {<<>>}
    ELSE LET shorter == SeqsUpTo(S, n - 1)
         IN shorter \cup {Append(s, x) : s \in shorter, x \in S}

\* depends_on arguments: lists of ids, stored or not, without repetition
DepInputs ==
    {d \in SeqsUpTo(TaskIds, MaxDeps) : Cardinality(Range(d)) = Len(d)}

\* an id that names no stored task, whatever is created
UnknownTaskId == MaxTasks + 1

\* depends_on arguments that may name UnknownTaskId
UnknownDepInputs ==
    {d \in SeqsUpTo(TaskIds \cup {UnknownTaskId}, MaxDeps) : Cardinality(Range(d)) = Len(d)}

\* max_concurrent arguments: below the range, in it, above it
CapacityInputs == {0, 1, 21}

\* (result, status) arguments of complete_task; status is any string
CompleteInputs ==
    {<<"done", "completed">>, <<"error", "failed">>, <<"partial", "in_progress">>}

\* the (result, status) arguments whose status is one the docstring names
FinalCompleteInputs == {arg \in CompleteInputs : arg[2] \in {"completed", "failed"}}

\* _generate_id: uuid4 is taken to be fresh; ids are numbered as created
generate_id(used) == Cardinality(used) + 1

WfIdPool == <<"wf_1", "wf_2", "wf_3">>

TeamIdPool == <<"team_1", "team_2", "team_3">>

SyncIdPool == <<"sync_1", "sync_2", "sync_3">>

\* agents named in teams and broadcasts
TeamAgents == {"a1", "a2", "a3"}

\* initial_members and target_agents arguments: lists of agents, repetitions
\* included (None takes the branch of the empty list)
MemberInputs == SeqsUpTo(TeamAgents, MaxMembers)

\* team_id arguments: none, the ids of teams, an id of no team
TeamIdInputs == {None, "team_x"} \cup Range(TeamIdPool)

StepNames == {"A", "B", "C"}

\* depends_on of a step: a list of step names (the key is optional)
StepDepInputs == {<<"A">>, <<"B">>, <<"C">>, <<"A", "B">>}

\* steps: name, depends_on (optional), priority (optional; here a string that
\* is no level)
StepValues ==
    {[name |-> n] : n \in StepNames}
        \cup [name : StepNames, depends_on : StepDepInputs]
        \cup [name : StepNames, priority : {"urgent"}]

\* steps arguments of create_workflow
StepInputs == SeqsUpTo(StepValues, MaxSteps)

\* steps of the workflows that are run to the end: a first step, steps that
\* name one or two prerequisites, a step whose priority is no level
RunStepValues ==
    {[name |-> "A"],
     [name |-> "B", depends_on |-> <<"A">>],
     [name |-> "C", depends_on |-> <<"A", "B">>],
     [name |-> "B", priority |-> "urgent"]}

RunStepInputs == SeqsUpTo(RunStepValues, MaxSteps)


----------------------------------------------------------------------------
(* Return values *)

\* `last`: the tool called last and the success flag and error of its return value
Called(op, result) == [op |-> op, success |-> result.success, error |-> result.error]

NoCall == [op |-> "none", success |-> TRUE, error |-> None]

Ok == [success |-> TRUE, error |-> None]

Fail(kind) == [success |-> FALSE, error |-> kind]

----------------------------------------------------------------------------
(* create_task *)

\* the circular-dependency loop leaving after its first dependency
CircularDependency_FirstOnly(ts, task_id, depends_on) ==
    /\ depends_on # <<>>
    /\ depends_on[1] \in DOMAIN ts
    /\ task_id \in Range(ts[depends_on[1]].depends_on)

\* lines 92-98: some dependency that is stored already lists the new id
CircularDependency(ts, task_id, depends_on) ==
    \E i \in 1..Len(depends_on) :
        /\ depends_on[i] \in DOMAIN ts
        /\ task_id \in Range(ts[depends_on[i]].depends_on)

\* create_task without lines 102-103
InitialStatus_AlwaysPending(assigned_to) == "pending"

\* lines 102-103
InitialStatus(assigned_to) == IF Truthy(assigned_to) THEN "assigned" ELSE "pending"

\* create_task without the priority check of lines 69-70
create_task_AnyPriority(ts, priority, depends_on, assigned_to, tags) ==
    LET task_id == generate_id(DOMAIN ts)
        task == [id |-> task_id, priority |-> priority,
                 status |-> InitialStatus(assigned_to),
                 depends_on |-> depends_on, assigned_to |-> assigned_to,
                 tags |-> tags, completed_at |-> None, result |-> None]
    IN IF CircularDependency(ts, task_id, depends_on)
       THEN [tasks |-> ts, result |-> Fail("CircularDependency") @@ [task_id |-> 0]]
       ELSE [tasks |-> (task_id :> task) @@ ts, result |-> Ok @@ [task_id |-> task_id]]

\* create_task with the task stored before the circular-dependency check
create_task_StoredBeforeCheck(ts, priority, depends_on, assigned_to, tags) ==
    IF priority \notin Range(PRIORITY_LEVELS)
    THEN [tasks |-> ts, result |-> Fail("InvalidPriority") @@ [task_id |-> 0]]
    ELSE LET task_id == generate_id(DOMAIN ts)
             task == [id |-> task_id, priority |-> priority,
                      status |-> InitialStatus(assigned_to),
                      depends_on |-> depends_on, assigned_to |-> assigned_to,
                      tags |-> tags, completed_at |-> None, result |-> None]
             stored == (task_id :> task) @@ ts
         IN IF CircularDependency(ts, task_id, depends_on)
            THEN [tasks |-> stored, result |-> Fail("CircularDependency") @@ [task_id |-> 0]]
            ELSE [tasks |-> stored, result |-> Ok @@ [task_id |-> task_id]]

create_task(ts, priority, depends_on, assigned_to, tags) ==
    IF priority \notin Range(PRIORITY_LEVELS)
    THEN [tasks |-> ts, result |-> Fail("InvalidPriority") @@ [task_id |-> 0]]
    ELSE LET task_id == generate_id(DOMAIN ts)
             task == [id |-> task_id, priority |-> priority, status |-> "pending",
                      depends_on |-> depends_on, assigned_to |-> assigned_to,
                      tags |-> tags, completed_at |-> None, result |-> None]
         IN IF CircularDependency(ts, task_id, depends_on)
            THEN [tasks |-> ts, result |-> Fail("CircularDependency") @@ [task_id |-> 0]]
            ELSE [tasks |-> (task_id :> [task EXCEPT !.status = InitialStatus(assigned_to)]) @@ ts,
                  result |-> Ok @@ [task_id |-> task_id]]

----------------------------------------------------------------------------
(* assign_task *)

\* lines 140-141: index of the first dependency that is stored and not completed, or 0
RECURSIVE FirstBlocking(_, _, _)
FirstBlocking(ts, depends_on, i) ==
    IF i > Len(depends_on) THEN 0
    ELSE IF depends_on[i] \in DOMAIN ts /\ ts[depends_on[i]].status # "completed"
         THEN i
         ELSE FirstBlocking(ts, depends_on, i + 1)

\* the count of lines 151-154 without the status test
current_tasks_AnyStatus(ts, agent_id) ==
    Cardinality({t \in DOMAIN ts : ts[t].assigned_to = agent_id})

\* lines 151-154
current_tasks(ts, agent_id) ==
    Cardinality({t \in DOMAIN ts :
                    /\ ts[t].assigned_to = agent_id
                    /\ ts[t].status \in {"assigned", "in_progress"}})

\* the capacity check with an agent without record held to the default limit
AtCapacity_DefaultForNoRecord(ts, caps, agent_id, force) ==
    /\ ~force
    /\ current_tasks(ts, agent_id) >=
          (IF agent_id \in DOMAIN caps THEN caps[agent_id].max_concurrent
           ELSE DefaultMaxConcurrent)

\* the capacity check refusing an agent that has no record
AtCapacity_NoRecordRefused(ts, caps, agent_id, force) ==
    /\ ~force
    /\ \/ agent_id \notin DOMAIN caps
       \/ current_tasks(ts, agent_id) >= caps[agent_id].max_concurrent

\* the capacity check without `and not force`
AtCapacity_ForceIgnored(ts, caps, agent_id, force) ==
    /\ agent_id \in DOMAIN caps
    /\ current_tasks(ts, agent_id) >= caps[agent_id].max_concurrent

\* lines 149-155
AtCapacity(ts, caps, agent_id, force) ==
    /\ agent_id \in DOMAIN caps
    /\ ~force
    /\ current_tasks(ts, agent_id) >= caps[agent_id].max_concurrent

\* the write of line 163 alone: the assignee is not recorded
Assigned_StatusOnly(task, agent_id) == [task EXCEPT !.status = "assigned"]

\* the write emptying the dependency list of the task it assigns
Assigned_DependenciesCleared(task, agent_id) ==
    [task EXCEPT !.assigned_to = agent_id, !.status = "assigned", !.depends_on = <<>>]

\* lines 162-163
Assigned(task, agent_id) == [task EXCEPT !.assigned_to = agent_id, !.status = "assigned"]

assign_task(ts, caps, task_id, agent_id, force) ==
    IF task_id \notin DOMAIN ts
    THEN [tasks |-> ts, result |-> Fail("TaskNotFound") @@ [blocking_task |-> 0]]
    ELSE LET k == FirstBlocking(ts, ts[task_id].depends_on, 1)
         IN IF k # 0
            THEN [tasks |-> ts,
                  result |-> Fail("DependencyNotCompleted")
                                @@ [blocking_task |-> ts[task_id].depends_on[k]]]
            ELSE IF AtCapacity(ts, caps, agent_id, force)
                 THEN [tasks |-> ts, result |-> Fail("AtCapacity") @@ [blocking_task |-> 0]]
                 ELSE [tasks |-> [ts EXCEPT ![task_id] = Assigned(ts[task_id], agent_id)],
                       result |-> Ok @@ [blocking_task |-> 0]]

----------------------------------------------------------------------------
(* complete_task *)

\* lines 198-200
Completed(task, result, status) ==
    [task EXCEPT !.status = status, !.result = result, !.completed_at = "stamp"]

\* the unblock test without `other_task["status"] == "pending"`
IsUnblocked_AnyStatus(ts, task_id, other_id) ==
    /\ task_id \in Range(ts[other_id].depends_on)
    /\ \A i \in 1..Len(ts[other_id].depends_on) :
          LET dep == ts[other_id].depends_on[i]
          IN dep \in DOMAIN ts /\ ts[dep].status = "completed"

\* lines 207-211, for one other task
IsUnblocked(ts, task_id, other_id) ==
    /\ task_id \in Range(ts[other_id].depends_on)
    /\ \A i \in 1..Len(ts[other_id].depends_on) :
          LET dep == ts[other_id].depends_on[i]
          IN dep \in DOMAIN ts /\ ts[dep].status = "completed"
    /\ ts[other_id].status = "pending"

\* lines 204-212: the scan of _tasks.items(), in insertion order
RECURSIVE Unblocked(_, _, _)
Unblocked(ts, task_id, other_id) ==
    IF other_id > Cardinality(DOMAIN ts) THEN <<>>
    ELSE (IF IsUnblocked(ts, task_id, other_id) THEN <<other_id>> ELSE <<>>)
            \o Unblocked(ts, task_id, other_id + 1)

\* complete_task without the check of lines 192-193
complete_task_MissingAccepted(ts, task_id, result, status) ==
    IF task_id \notin DOMAIN ts
    THEN [tasks |-> ts, result |-> Ok @@ [unblocked_tasks |-> <<>>]]
    ELSE LET after == [ts EXCEPT ![task_id] = Completed(ts[task_id], result, status)]
         IN [tasks |-> after,
             result |-> Ok @@ [unblocked_tasks |-> Unblocked(after, task_id, 1)]]

\* complete_task starting the tasks it reports as unblocked
complete_task_StartsUnblocked(ts, task_id, result, status) ==
    IF task_id \notin DOMAIN ts
    THEN [tasks |-> ts, result |-> Fail("TaskNotFound") @@ [unblocked_tasks |-> <<>>]]
    ELSE LET after == [ts EXCEPT ![task_id] = Completed(ts[task_id], result, status)]
             unblocked == Unblocked(after, task_id, 1)
         IN [tasks |-> [u \in DOMAIN after |->
                           IF u \in Range(unblocked)
                           THEN [after[u] EXCEPT !.status = "in_progress"]
                           ELSE after[u]],
             result |-> Ok @@ [unblocked_tasks |-> unblocked]]

complete_task(ts, task_id, result, status) ==
    IF task_id \notin DOMAIN ts
    THEN [tasks |-> ts, result |-> Fail("TaskNotFound") @@ [unblocked_tasks |-> <<>>]]
    ELSE LET after == [ts EXCEPT ![task_id] = Completed(ts[task_id], result, status)]
         IN [tasks |-> after,
             result |-> Ok @@ [unblocked_tasks |-> Unblocked(after, task_id, 1)]]

----------------------------------------------------------------------------
(* set_agent_capacity *)

\* set_agent_capacity checking the lower end of the range only
set_agent_capacity_NoUpperEnd(caps, agent_id, max_concurrent) ==
    IF ~(1 <= max_concurrent)
    THEN [agent_capacities |-> caps, result |-> Fail("CapacityOutOfRange")]
    ELSE [agent_capacities |->
              (agent_id :> [max_concurrent |-> max_concurrent]) @@ caps,
          result |-> Ok]

set_agent_capacity(caps, agent_id, max_concurrent) ==
    IF ~(1 <= max_concurrent /\ max_concurrent <= 20)
    THEN [agent_capacities |-> caps, result |-> Fail("CapacityOutOfRange")]
    ELSE [agent_capacities |->
              (agent_id :> [max_concurrent |-> max_concurrent]) @@ caps,
          result |-> Ok]

----------------------------------------------------------------------------
(* create_workflow, execute_workflow *)

\* step.get(key, default)
StepGet(step, key, default) == IF key \in DOMAIN step THEN step[key] ELSE default

create_workflow(wfs, steps) ==
    LET workflow_id == WfIdPool[generate_id(DOMAIN wfs)]
        workflow == [id |-> workflow_id, steps |-> steps, status |-> "created",
                     executed_at |-> None, task_ids |-> <<>>]
    IN [workflows |-> (workflow_id :> workflow) @@ wfs,
        result |-> Ok @@ [workflow_id |-> workflow_id]]

\* the resolution loop leaving after the first prerequisite it resolves
ResolveDependencies_FirstOnly(step_to_task, dep_names) ==
    LET known(dep_name) == dep_name \in DOMAIN step_to_task
        found == SelectSeq(dep_names, known)
    IN IF found = <<>> THEN <<>> ELSE <<step_to_task[found[1]]>>

\* lines 301-304: the prerequisites already in step_to_task, as task ids, in order
ResolveDependencies(step_to_task, dep_names) ==
    LET known(dep_name) == dep_name \in DOMAIN step_to_task
        found == SelectSeq(dep_names, known)
    IN [i \in 1..Len(found) |-> step_to_task[found[i]]]

\* lines 296-318: the loop over workflow["steps"], from step i on
RECURSIVE ExpandSteps(_, _, _, _, _, _)
ExpandSteps(ts, workflow_id, steps, i, step_to_task, created_tasks) ==
    IF i > Len(steps)
    THEN [tasks |-> ts, step_to_task |-> step_to_task, created_tasks |-> created_tasks]
    ELSE LET step == steps[i]
             depends_on == ResolveDependencies(step_to_task, StepGet(step, "depends_on", <<>>))
             r == create_task(ts, StepGet(step, "priority", "medium"), depends_on,
                              None, <<"workflow", workflow_id>>)
         IN IF r.result.success
            THEN ExpandSteps(r.tasks, workflow_id, steps, i + 1,
                             (step.name :> r.result.task_id) @@ step_to_task,
                             Append(created_tasks, r.result.task_id))
            ELSE ExpandSteps(ts, workflow_id, steps, i + 1, step_to_task, created_tasks)

\* execute_workflow giving the tasks it creates to an agent when auto_assign is set
execute_workflow_AutoAssigns(ts, wfs, workflow_id, auto_assign) ==
    IF workflow_id \notin DOMAIN wfs
    THEN [tasks |-> ts, workflows |-> wfs,
          result |-> Fail("WorkflowNotFound") @@ [created_tasks |-> <<>>]]
    ELSE LET workflow == wfs[workflow_id]
             e == ExpandSteps(ts, workflow_id, workflow.steps, 1, <<>>, <<>>)
         IN [tasks |-> [t \in DOMAIN e.tasks |->
                           IF auto_assign /\ t \in Range(e.created_tasks)
                           THEN Assigned(e.tasks[t], "a1")
                           ELSE e.tasks[t]],
             workflows |-> [wfs EXCEPT ![workflow_id] =
                               [workflow EXCEPT !.status = "executing",
                                                !.executed_at = "stamp",
                                                !.task_ids = e.step_to_task]],
             result |-> Ok @@ [created_tasks |-> e.created_tasks]]

\* auto_assign is a parameter that the body never reads
execute_workflow(ts, wfs, workflow_id, auto_assign) ==
    IF workflow_id \notin DOMAIN wfs
    THEN [tasks |-> ts, workflows |-> wfs,
          result |-> Fail("WorkflowNotFound") @@ [created_tasks |-> <<>>]]
    ELSE LET workflow == wfs[workflow_id]
             e == ExpandSteps(ts, workflow_id, workflow.steps, 1, <<>>, <<>>)
         IN [tasks |-> e.tasks,
             workflows |-> [wfs EXCEPT ![workflow_id] =
                               [workflow EXCEPT !.status = "executing",
                                                !.executed_at = "stamp",
                                                !.task_ids = e.step_to_task]],
             result |-> Ok @@ [created_tasks |-> e.created_tasks]]

----------------------------------------------------------------------------
(* create_agent_team, broadcast_message *)

create_agent_team(tms, initial_members) ==
    LET team_id == TeamIdPool[generate_id(DOMAIN tms)]
        team == [id |-> team_id, members |-> initial_members,
                 roles |-> [member \in Range(initial_members) |-> "member"]]
    IN [teams |-> (team_id :> team) @@ tms,
        result |-> Ok @@ [team_id |-> team_id]]

\* lines 398-403: the targets, then the members of the team if it is stored
ExtendedRecipients(tms, target_agents, team_id) ==
    target_agents \o (IF Truthy(team_id) /\ team_id \in DOMAIN tms
                       THEN tms[team_id].members
                       ELSE <<>>)

\* the list kept as it is, without the passage through set()
list_set_Identity(recipients) == {recipients}

\* line 405, list(set(recipients)): the lists this can give, one per order of
\* the elements
list_set(recipients) ==
    LET elements == Range(recipients)
    IN {l \in SeqsUpTo(elements, Cardinality(elements)) : Range(l) = elements}

\* broadcast_message refusing a broadcast that reaches no one
broadcast_message_NeedsRecipient(msgs, target_agents, team_id, recipients) ==
    LET msg_id == generate_id(1..Len(msgs))
        msg == [id |-> msg_id, recipients |-> recipients, team_id |-> team_id]
    IN IF recipients = <<>>
       THEN [messages |-> msgs,
             result |-> Fail("NoRecipients")
                           @@ [message_id |-> 0, recipients_count |-> 0, broadcast |-> msg]]
       ELSE [messages |-> Append(msgs, msg),
             result |-> Ok @@ [message_id |-> msg_id,
                               recipients_count |-> Len(recipients),
                               broadcast |-> msg]]

\* broadcast_message keeping the newest record only
broadcast_message_KeepsNewest(msgs, target_agents, team_id, recipients) ==
    LET msg_id == generate_id(1..Len(msgs))
        msg == [id |-> msg_id, recipients |-> recipients, team_id |-> team_id]
    IN [messages |-> <<msg>>,
        result |-> Ok @@ [message_id |-> msg_id,
                          recipients_count |-> Len(recipients),
                          broadcast |-> msg]]

\* broadcast_message, where recipients is the list that line 405 gave
broadcast_message(msgs, target_agents, team_id, recipients) ==
    LET msg_id == generate_id(1..Len(msgs))
        msg == [id |-> msg_id, recipients |-> recipients, team_id |-> team_id]
    IN [messages |-> Append(msgs, msg),
        result |-> Ok @@ [message_id |-> msg_id,
                          recipients_count |-> Len(recipients),
                          broadcast |-> msg]]

----------------------------------------------------------------------------
(* create_sync_point *)

\* create_sync_point with a sync point that waits for no one created ready
create_sync_point_ReadyWhenEmpty(sps, required_agents) ==
    LET sync_id == SyncIdPool[generate_id(DOMAIN sps)]
        sync == [id |-> sync_id, required_agents |-> required_agents,
                 checked_in |-> <<>>,
                 status |-> IF required_agents = <<>> THEN "ready" ELSE "waiting"]
    IN [sync_points |-> (sync_id :> sync) @@ sps,
        result |-> Ok @@ [sync_id |-> sync_id, waiting_for |-> required_agents]]

create_sync_point(sps, required_agents) ==
    LET sync_id == SyncIdPool[generate_id(DOMAIN sps)]
        sync == [id |-> sync_id, required_agents |-> required_agents,
                 checked_in |-> <<>>, status |-> "waiting"]
    IN [sync_points |-> (sync_id :> sync) @@ sps,
        result |-> Ok @@ [sync_id |-> sync_id, waiting_for |-> required_agents]]

----------------------------------------------------------------------------
(* get_orchestration_dashboard *)

\* the sum of the values of the dict d over the keys in S
RECURSIVE SumValues(_, _)
SumValues(d, S) ==
    IF S = {} THEN 0
    ELSE LET k == CHOOSE x \in S : TRUE
         IN d[k] + SumValues(d, S \ {k})

\* lines 431-433: a count for every defined status and every status met
TaskStats(ts) ==
    [status \in Range(TASK_STATUSES) \cup {ts[t].status : t \in DOMAIN ts} |->
        Cardinality({t \in DOMAIN ts : ts[t].status = status})]

\* lines 436-439: a count for every level and every priority met, over the
\* tasks that are neither completed nor failed
PriorityStats(ts) ==
    LET open == {t \in DOMAIN ts : ts[t].status \notin {"completed", "failed"}}
    IN [priority \in Range(PRIORITY_LEVELS) \cup {ts[t].priority : t \in open} |->
           Cardinality({t \in open : ts[t].priority = priority})]

\* the workload loop counting the tasks with status assigned only
AgentWorkloads_AssignedOnly(ts) ==
    LET counted == {t \in DOMAIN ts :
                       Truthy(ts[t].assigned_to) /\ ts[t].status = "assigned"}
    IN [agent \in {ts[t].assigned_to : t \in counted} |->
           Cardinality({t \in counted : ts[t].assigned_to = agent})]

\* lines 442-446: a count for every agent that has a task assigned or in progress
AgentWorkloads(ts) ==
    LET counted == {t \in DOMAIN ts :
                       /\ Truthy(ts[t].assigned_to)
                       /\ ts[t].status \in {"assigned", "in_progress"}}
    IN [agent \in {ts[t].assigned_to : t \in counted} |->
           Cardinality({t \in counted : ts[t].assigned_to = agent})]

\* lines 448-468
Dashboard(ts, wfs, tms, sps, msgs) ==
    [tasks |-> [total |-> Cardinality(DOMAIN ts),
                by_status |-> TaskStats(ts),
                by_priority |-> PriorityStats(ts)],
     workflows |-> [total |-> Cardinality(DOMAIN wfs),
                    active |-> Cardinality({w \in DOMAIN wfs :
                                               wfs[w].status = "executing"})],
     teams |-> [total |-> Cardinality(DOMAIN tms),
                total_members |-> SumValues([t \in DOMAIN tms |-> Len(tms[t].members)],
                                            DOMAIN tms)],
     agent_workloads |-> AgentWorkloads(ts),
     pending_messages |-> Len(msgs),
     sync_points |-> Cardinality(DOMAIN sps)]

\* the dashboard taking the completed and failed tasks out of the store it reports
get_orchestration_dashboard_DropsTerminal(ts, wfs, tms, caps, sps, msgs) ==
    LET open == {t \in DOMAIN ts : ts[t].status \notin {"completed", "failed"}}
    IN [tasks |-> [t \in open |-> ts[t]], workflows |-> wfs, teams |-> tms,
        agent_capacities |-> caps, sync_points |-> sps, messages |-> msgs,
        result |-> Ok @@ [dashboard |-> Dashboard(ts, wfs, tms, sps, msgs)]]

\* the registries are returned as the call leaves them: it writes none
get_orchestration_dashboard(ts, wfs, tms, caps, sps, msgs) ==
    [tasks |-> ts, workflows |-> wfs, teams |-> tms,
     agent_capacities |-> caps, sync_points |-> sps, messages |-> msgs,
     result |-> Ok @@ [dashboard |-> Dashboard(ts, wfs, tms, sps, msgs)]]

----------------------------------------------------------------------------
(* Actions *)

Init ==
    /\ tasks = <<>>
    /\ workflows = <<>>
    /\ teams = <<>>
    /\ agent_capacities = <<>>
    /\ sync_points = <<>>
    /\ messages = <<>>
    /\ last = NoCall
    /\ callers = [c \in Callers |-> Idle]

CreateTask ==
    /\ Cardinality(DOMAIN tasks) < MaxTasks
    /\ \E priority \in PriorityInputs, depends_on \in DepInputs,
          assigned_to \in Agents \cup {None} :
          LET r == create_task(tasks, priority, depends_on, assigned_to, <<>>)
          IN /\ tasks' = r.tasks
             /\ last' = Called("create_task", r.result)
    /\ UNCHANGED <<workflows, teams, agent_capacities, sync_points, messages, callers>>

AssignTask ==
    /\ \E task_id \in TaskIds, agent_id \in Agents, force \in BOOLEAN :
          LET r == assign_task(tasks, agent_capacities, task_id, agent_id, force)
          IN /\ tasks' = r.tasks
             /\ last' = Called("assign_task", r.result)
    /\ UNCHANGED <<workflows, teams, agent_capacities, sync_points, messages, callers>>

CompleteTask ==
    /\ \E task_id \in TaskIds, arg \in CompleteInputs :
          LET r == complete_task(tasks, task_id, arg[1], arg[2])
          IN /\ tasks' = r.tasks
             /\ last' = Called("complete_task", r.result)
    /\ UNCHANGED <<workflows, teams, agent_capacities, sync_points, messages, callers>>

SetAgentCapacity ==
    /\ \E agent_id \in Agents, max_concurrent \in CapacityInputs :
          LET r == set_agent_capacity(agent_capacities, agent_id, max_concurrent)
          IN /\ agent_capacities' = r.agent_capacities
             /\ last' = Called("set_agent_capacity", r.result)
    /\ UNCHANGED <<tasks, workflows, teams, sync_points, messages, callers>>

CreateWorkflow ==
    /\ Cardinality(DOMAIN workflows) < MaxWorkflows
    /\ \E steps \in StepInputs :
          LET r == create_workflow(workflows, steps)
          IN /\ workflows' = r.workflows
             /\ last' = Called("create_workflow", r.result)
    /\ UNCHANGED <<tasks, teams, agent_capacities, sync_points, messages, callers>>

\* the guard keeps the store within MaxExpansions expansions of the workflow
ExecuteWorkflow ==
    /\ \E workflow_id \in Range(WfIdPool), auto_assign \in BOOLEAN :
          /\ workflow_id \in DOMAIN workflows =>
                Cardinality(DOMAIN tasks) + Len(workflows[workflow_id].steps)
                    <= MaxExpansions * MaxSteps
          /\ LET r == execute_workflow(tasks, workflows, workflow_id, auto_assign)
             IN /\ tasks' = r.tasks
                /\ workflows' = r.workflows
                /\ last' = Called("execute_workflow", r.result)
    /\ UNCHANGED <<teams, agent_capacities, sync_points, messages, callers>>

CreateAgentTeam ==
    /\ Cardinality(DOMAIN teams) < MaxTeams
    /\ \E initial_members \in MemberInputs :
          LET r == create_agent_team(teams, initial_members)
          IN /\ teams' = r.teams
             /\ last' = Called("create_agent_team", r.result)
    /\ UNCHANGED <<tasks, workflows, agent_capacities, sync_points, messages, callers>>

BroadcastMessage ==
    /\ Len(messages) < MaxMessages
    /\ \E target_agents \in MemberInputs, team_id \in TeamIdInputs :
          \E recipients \in list_set(ExtendedRecipients(teams, target_agents, team_id)) :
             LET r == broadcast_message(messages, target_agents, team_id, recipients)
             IN /\ messages' = r.messages
                /\ last' = Called("broadcast_message", r.result)
    /\ UNCHANGED <<tasks, workflows, teams, agent_capacities, sync_points, callers>>

CreateSyncPoint ==
    /\ Cardinality(DOMAIN sync_points) < MaxSyncPoints
    /\ \E required_agents \in MemberInputs :
          LET r == create_sync_point(sync_points, required_agents)
          IN /\ sync_points' = r.sync_points
             /\ last' = Called("create_sync_point", r.result)
    /\ UNCHANGED <<tasks, workflows, teams, agent_capacities, messages, callers>>

GetOrchestrationDashboard ==
    LET r == get_orchestration_dashboard(tasks, workflows, teams, agent_capacities,
                                         sync_points, messages)
    IN /\ tasks' = r.tasks
       /\ workflows' = r.workflows
       /\ teams' = r.teams
       /\ agent_capacities' = r.agent_capacities
       /\ sync_points' = r.sync_points
       /\ messages' = r.messages
       /\ last' = Called("get_orchestration_dashboard", r.result)
       /\ UNCHANGED callers

\* the task store and the capacity registry; no workflow is defined, so
\* every execute_workflow is a call with an unknown id
Next ==
    \/ CreateTask
    \/ AssignTask
    \/ CompleteTask
    \/ SetAgentCapacity
    \/ ExecuteWorkflow

Spec == Init /\ [][Next]_vars

\* the task store and the capacity registry with the dashboard
NextDashboard ==
    \/ Next
    \/ GetOrchestrationDashboard

SpecDashboard == Init /\ [][NextDashboard]_vars

\* workflow definition and expansion
NextExpand ==
    \/ CreateWorkflow
    \/ ExecuteWorkflow

SpecExpand == Init /\ [][NextExpand]_vars

\* create_task without dependencies, up to MaxLoad tasks
CreateIndependentTask ==
    /\ Cardinality(DOMAIN tasks) < MaxLoad
    /\ \E assigned_to \in Agents \cup {None} :
          LET r == create_task(tasks, "medium", <<>>, assigned_to, <<>>)
          IN /\ tasks' = r.tasks
             /\ last' = Called("create_task", r.result)
    /\ UNCHANGED <<workflows, teams, agent_capacities, sync_points, messages, callers>>

\* assign_task on a store of up to MaxLoad tasks
AssignLoadedTask ==
    /\ \E task_id \in LoadIds, agent_id \in Agents, force \in BOOLEAN :
          LET r == assign_task(tasks, agent_capacities, task_id, agent_id, force)
          IN /\ tasks' = r.tasks
             /\ last' = Called("assign_task", r.result)
    /\ UNCHANGED <<workflows, teams, agent_capacities, sync_points, messages, callers>>

\* agents loaded with up to MaxLoad tasks, with and without capacity record
NextLoad ==
    \/ CreateIndependentTask
    \/ AssignLoadedTask
    \/ SetAgentCapacity

SpecLoad == Init /\ [][NextLoad]_vars

\* sync points, with teams and the dashboard
NextSync ==
    \/ CreateSyncPoint
    \/ CreateAgentTeam
    \/ GetOrchestrationDashboard

SpecSync == Init /\ [][NextSync]_vars

\* teams and broadcasts
NextTeams ==
    \/ CreateAgentTeam
    \/ BroadcastMessage

SpecTeams == Init /\ [][NextTeams]_vars

\* assign_task lines 134-160 run by caller c, without force: the checks return
\* a failure, or pass and leave the caller before line 162
AssignCheck(c) ==
    /\ callers[c] = Idle
    /\ \E task_id \in TaskIds, agent_id \in Agents :
          LET r == assign_task(tasks, agent_capacities, task_id, agent_id, FALSE)
          IN IF r.result.success
             THEN /\ callers' = [callers EXCEPT ![c] =
                                    [pc |-> "write", task_id |-> task_id,
                                     agent_id |-> agent_id]]
                  /\ UNCHANGED last
             ELSE /\ last' = Called("assign_task", r.result)
                  /\ UNCHANGED callers
    /\ UNCHANGED registries

\* assign_task lines 162-170 run by caller c: the write and the return
AssignWrite(c) ==
    /\ callers[c] # Idle
    /\ tasks' = [tasks EXCEPT ![callers[c].task_id] =
                    Assigned(tasks[callers[c].task_id], callers[c].agent_id)]
    /\ last' = Called("assign_task", Ok)
    /\ callers' = [callers EXCEPT ![c] = Idle]
    /\ UNCHANGED <<workflows, teams, agent_capacities, sync_points, messages>>

NoCallerInside == \A c \in Callers : callers[c] = Idle

\* unforced assign_task calls of concurrent callers, on a store and capacity
\* registry built while no assign_task is under way
NextAssign ==
    \/ NoCallerInside /\ CreateTask
    \/ NoCallerInside /\ SetAgentCapacity
    \/ \E c \in Callers : AssignCheck(c)
    \/ \E c \in Callers : AssignWrite(c)

SpecAssign == Init /\ [][NextAssign]_vars

\* create_task with a depends_on that may name an id of no task
CreateTaskWithUnknownDependency ==
    /\ Cardinality(DOMAIN tasks) < MaxTasks
    /\ \E depends_on \in UnknownDepInputs :
          LET r == create_task(tasks, "medium", depends_on, None, <<>>)
          IN /\ tasks' = r.tasks
             /\ last' = Called("create_task", r.result)
    /\ UNCHANGED <<workflows, teams, agent_capacities, sync_points, messages, callers>>

\* the task store with dependencies on ids that name no task
NextUnknown ==
    \/ CreateTaskWithUnknownDependency
    \/ AssignTask
    \/ CompleteTask

SpecUnknown == Init /\ [][NextUnknown]_vars

\* teams and broadcasts with the dashboard
NextLog ==
    \/ NextTeams
    \/ GetOrchestrationDashboard

SpecLog == Init /\ [][NextLog]_vars

\* complete_task called with status completed or failed only
CompleteTaskAsFinal ==
    /\ \E task_id \in TaskIds, arg \in FinalCompleteInputs :
          LET r == complete_task(tasks, task_id, arg[1], arg[2])
          IN /\ tasks' = r.tasks
             /\ last' = Called("complete_task", r.result)
    /\ UNCHANGED <<workflows, teams, agent_capacities, sync_points, messages, callers>>

\* the task store and the capacity registry where complete_task is called
\* with status completed or failed only
NextFinal ==
    \/ CreateTask
    \/ AssignTask
    \/ CompleteTaskAsFinal
    \/ SetAgentCapacity

SpecFinal == Init /\ [][NextFinal]_vars

\* create_workflow with the steps of RunStepInputs
CreateRunWorkflow ==
    /\ Cardinality(DOMAIN workflows) < MaxWorkflows
    /\ \E steps \in RunStepInputs :
          LET r == create_workflow(workflows, steps)
          IN /\ workflows' = r.workflows
             /\ last' = Called("create_workflow", r.result)
    /\ UNCHANGED <<tasks, teams, agent_capacities, sync_points, messages, callers>>

\* execute_workflow of a stored workflow; the guard keeps the store within
\* MaxRunTasks tasks
ExecuteRunWorkflow ==
    /\ \E workflow_id \in DOMAIN workflows, auto_assign \in BOOLEAN :
          /\ Cardinality(DOMAIN tasks) + Len(workflows[workflow_id].steps) <= MaxRunTasks
          /\ LET r == execute_workflow(tasks, workflows, workflow_id, auto_assign)
             IN /\ tasks' = r.tasks
                /\ workflows' = r.workflows
                /\ last' = Called("execute_workflow", r.result)
    /\ UNCHANGED <<teams, agent_capacities, sync_points, messages, callers>>

\* a caller that runs tasks as agent a1: assign_task with force on a task
\* that is not completed, taken when the call succeeds
AssignReadyTask ==
    /\ \E task_id \in DOMAIN tasks, agent_id \in {"a1"} :
          LET r == assign_task(tasks, agent_capacities, task_id, agent_id, TRUE)
          IN /\ tasks[task_id].status # "completed"
             /\ r.result.success
             /\ tasks' = r.tasks
             /\ last' = Called("assign_task", r.result)
    /\ UNCHANGED <<workflows, teams, agent_capacities, sync_points, messages, callers>>

\* the same caller: complete_task with status completed on an assigned task
CompleteAssignedTask ==
    /\ \E task_id \in DOMAIN tasks :
          LET r == complete_task(tasks, task_id, "done", "completed")
          IN /\ tasks[task_id].status = "assigned"
             /\ tasks' = r.tasks
             /\ last' = Called("complete_task", r.result)
    /\ UNCHANGED <<workflows, teams, agent_capacities, sync_points, messages, callers>>

\* a workflow expanded and run to the end; the caller that runs the tasks
\* keeps calling while there is a call for it to make
NextRun ==
    \/ CreateRunWorkflow
    \/ ExecuteRunWorkflow
    \/ SetAgentCapacity
    \/ AssignReadyTask
    \/ CompleteAssignedTask

SpecRun ==
    /\ Init
    /\ [][NextRun]_vars
    /\ WF_vars(AssignReadyTask)
    /\ WF_vars(CompleteAssignedTask)

----------------------------------------------------------------------------
(* Vocabulary of the properties *)

Terminal == {"completed", "failed"}

\* every dependency of task t is a stored task with status completed
DependenciesCompleted(ts, t) ==
    \A d \in Range(ts[t].depends_on) : d \in DOMAIN ts /\ ts[d].status = "completed"

\* agent a has a Capacity Record and holds at least / more than its limit
Saturated(ts, caps, a) ==
    a \in DOMAIN caps /\ current_tasks(ts, a) >= caps[a].max_concurrent

OverLimit(ts, caps, a) ==
    a \in DOMAIN caps /\ current_tasks(ts, a) > caps[a].max_concurrent

----------------------------------------------------------------------------
(* C1 *)

\* C1: for every task T with a non-empty dependency set, in every state where
\* some dependency of T has not reached status completed, assign(T, agent)
\* fails with DependencyUnmet, forced or not, and leaves the store unchanged.
C1_AssignFailsWhileDependencyUnmet ==
    \A t \in DOMAIN tasks, a \in Agents, force \in BOOLEAN :
        (tasks[t].depends_on # <<>> /\ ~DependenciesCompleted(tasks, t)) =>
            LET r == assign_task(tasks, agent_capacities, t, a, force)
            IN /\ ~r.result.success
               /\ r.result.error = "DependencyNotCompleted"
               /\ r.tasks = tasks

----------------------------------------------------------------------------
(* C2 *)

\* the step is a successful assign_task(_, a, force=True)
ForcedAssignStep(a) ==
    /\ UNCHANGED agent_capacities
    /\ \E t \in DOMAIN tasks :
          LET r == assign_task(tasks, agent_capacities, t, a, TRUE)
          IN r.result.success /\ tasks' = r.tasks

\* C2: the in-flight count of an agent with a capacity limit L goes above L
\* only by an assign with force=true.
C2_CapacityExceededOnlyByForce ==
    [][\A a \in Agents :
          (OverLimit(tasks', agent_capacities', a) /\ ~OverLimit(tasks, agent_capacities, a))
              => ForcedAssignStep(a)]_vars

----------------------------------------------------------------------------
(* C3 *)

\* C3: assign(T, A) without force, where T has an unmet dependency and A is at
\* or above its limit, fails with DependencyUnmet and not with CapacityExceeded.
C3_DependencyCheckedBeforeCapacity ==
    \A t \in DOMAIN tasks, a \in Agents :
        (~DependenciesCompleted(tasks, t) /\ Saturated(tasks, agent_capacities, a)) =>
            LET r == assign_task(tasks, agent_capacities, t, a, FALSE)
            IN ~r.result.success /\ r.result.error = "DependencyNotCompleted"

----------------------------------------------------------------------------
(* C4 *)

\* C4: once T is completed, complete(T, status=failed) fails and leaves T's
\* status and result as they are.
C4_FirstTerminalTransitionWins ==
    \A t \in DOMAIN tasks :
        tasks[t].status = "completed" =>
            LET r == complete_task(tasks, t, "error", "failed")
            IN /\ ~r.result.success
               /\ r.tasks[t].status = "completed"
               /\ r.tasks[t].result = tasks[t].result

----------------------------------------------------------------------------
(* C5 *)

\* C5: no step changes the status of a task whose status is completed or failed.
C5_TerminalStatusAbsorbing ==
    [][\A t \in DOMAIN tasks :
          tasks[t].status \in Terminal => tasks'[t].status = tasks[t].status]_vars

----------------------------------------------------------------------------
(* C6 *)

\* step i of the list gets a task: create_task accepts its priority
StepAccepted(steps, i) ==
    StepGet(steps[i], "priority", "medium") \in Range(PRIORITY_LEVELS)

\* the task of accepted step i in the return value r of the expansion
TaskOfStep(r, steps, i) ==
    r.result.created_tasks[Cardinality({j \in 1..i : StepAccepted(steps, j)})]

\* the accepted steps before step i that are named n
EarlierSteps(steps, i, n) ==
    {j \in 1..(i - 1) : StepAccepted(steps, j) /\ steps[j].name = n}

Maximum(S) == CHOOSE x \in S : \A y \in S : y <= x

PrerequisiteNames(step) == Range(StepGet(step, "depends_on", <<>>))

\* C6 as stated: the dependency set of a step's task is the set of all task ids
\* this expansion produced for the step's prerequisite names that occur earlier
\* in the step list.
C6_DependenciesOfAllEarlierSteps ==
    \A w \in DOMAIN workflows :
        LET steps == workflows[w].steps
            r == execute_workflow(tasks, workflows, w, TRUE)
        IN \A i \in 1..Len(steps) :
              StepAccepted(steps, i) =>
                  Range(r.tasks[TaskOfStep(r, steps, i)].depends_on)
                      = {TaskOfStep(r, steps, j) :
                            j \in UNION {EarlierSteps(steps, i, n) :
                                            n \in PrerequisiteNames(steps[i])}}

\* C6 amended: every accepted step gets one new task, and the dependency set of
\* the task is, for each prerequisite name that an accepted earlier step has,
\* the task of the latest such step; other prerequisite names give nothing.
C6_DependenciesOfLatestEarlierStep ==
    \A w \in DOMAIN workflows :
        LET steps == workflows[w].steps
            r == execute_workflow(tasks, workflows, w, TRUE)
            accepted == {i \in 1..Len(steps) : StepAccepted(steps, i)}
        IN /\ r.result.success
           /\ Len(r.result.created_tasks) = Cardinality(accepted)
           /\ \A i \in accepted :
                 /\ TaskOfStep(r, steps, i) \in DOMAIN r.tasks \ DOMAIN tasks
                 /\ Range(r.tasks[TaskOfStep(r, steps, i)].depends_on)
                        = {TaskOfStep(r, steps, Maximum(EarlierSteps(steps, i, n))) :
                              n \in {m \in PrerequisiteNames(steps[i]) :
                                        EarlierSteps(steps, i, m) # {}}}

\* the workflow [A, B deps [A], C deps [A, B]] has been expanded into tasks 1, 2, 3
C6_Witness ==
    /\ last.op = "execute_workflow" /\ last.success
    /\ \E w \in DOMAIN workflows :
          /\ workflows[w].steps =
                <<[name |-> "A"], [name |-> "B", depends_on |-> <<"A">>],
                  [name |-> "C", depends_on |-> <<"A", "B">>]>>
          /\ workflows[w].status = "executing"
          /\ DOMAIN tasks = {1, 2, 3}
          /\ workflows[w].task_ids["A"] = 1
          /\ workflows[w].task_ids["B"] = 2
          /\ workflows[w].task_ids["C"] = 3
          /\ tasks[1].depends_on = <<>>
          /\ Range(tasks[2].depends_on) = {1}
          /\ Range(tasks[3].depends_on) = {1, 2}

----------------------------------------------------------------------------
(* C7 *)

\* C7: a call to expand either creates exactly one task for every step of the
\* workflow, or fails, creates no task and leaves the workflow unchanged.
C7_ExpandAllOrNothing ==
    \A w \in Range(WfIdPool) :
        LET r == execute_workflow(tasks, workflows, w, TRUE)
        IN \/ /\ r.result.success
              /\ w \in DOMAIN workflows
              /\ Len(r.result.created_tasks) = Len(workflows[w].steps)
              /\ Cardinality(DOMAIN r.tasks \ DOMAIN tasks) = Len(workflows[w].steps)
           \/ /\ ~r.result.success
              /\ r.tasks = tasks
              /\ r.workflows = workflows

----------------------------------------------------------------------------
(* C8 *)

\* C8: for a stored task whose dependencies are all completed, assign with
\* force=true succeeds whatever the agent holds, and assign without force to an
\* agent at or above its limit fails with CapacityExceeded and changes nothing.
C8_ForceOverridesOnlyCapacity ==
    \A t \in DOMAIN tasks, a \in Agents :
        DependenciesCompleted(tasks, t) =>
            /\ LET r == assign_task(tasks, agent_capacities, t, a, TRUE)
               IN /\ r.result.success
                  /\ r.tasks[t].status = "assigned"
                  /\ r.tasks[t].assigned_to = a
            /\ Saturated(tasks, agent_capacities, a) =>
                  LET r == assign_task(tasks, agent_capacities, t, a, FALSE)
                  IN /\ ~r.result.success
                     /\ r.result.error = "AtCapacity"
                     /\ r.tasks = tasks

\* an assign has just succeeded and leaves agent a, of limit 1, with two
\* assigned tasks, both without dependencies: assign without force fails for
\* them, assign with force succeeds
C8_Witness ==
    /\ last.op = "assign_task" /\ last.success
    /\ \E a \in DOMAIN agent_capacities :
          /\ agent_capacities[a].max_concurrent = 1
          /\ DOMAIN tasks = {1, 2}
          /\ \A t \in DOMAIN tasks :
                /\ tasks[t].depends_on = <<>>
                /\ tasks[t].status = "assigned"
                /\ tasks[t].assigned_to = a
                /\ ~assign_task(tasks, agent_capacities, t, a, FALSE).result.success
                /\ assign_task(tasks, agent_capacities, t, a, TRUE).result.success

----------------------------------------------------------------------------
(* C9 *)

\* C9: the unblocked list returned by complete(taskId, ...) holds, once each,
\* exactly the tasks U whose dependency set contains taskId, whose dependencies
\* all have status completed after the call and whose status is pending; it is
\* empty when the call's status is failed.
C9_UnblockedSet ==
    \A t \in DOMAIN tasks, arg \in CompleteInputs :
        LET r == complete_task(tasks, t, arg[1], arg[2])
            unblocked == r.result.unblocked_tasks
        IN /\ r.result.success
           /\ Range(unblocked) =
                 {u \in DOMAIN r.tasks :
                     /\ t \in Range(r.tasks[u].depends_on)
                     /\ DependenciesCompleted(r.tasks, u)
                     /\ r.tasks[u].status = "pending"}
           /\ Cardinality(Range(unblocked)) = Len(unblocked)
           /\ arg[2] = "failed" => unblocked = <<>>

\* complete has just completed task 1, and task 2, pending and depending on
\* task 1 alone, is what that call reports as unblocked
C9_Witness ==
    /\ last.op = "complete_task" /\ last.success
    /\ DOMAIN tasks = {1, 2}
    /\ tasks[1].status = "completed"
    /\ tasks[2].depends_on = <<1>>
    /\ tasks[2].status = "pending"
    /\ complete_task(tasks, 1, "done", "completed").result.unblocked_tasks = <<2>>
    /\ complete_task(tasks, 1, "error", "failed").result.unblocked_tasks = <<>>

----------------------------------------------------------------------------
(* C10 *)

\* C10: a call that returns a failure leaves the task, workflow, team,
\* capacity, sync-point and message registries as they were.
C10_FailureChangesNothing ==
    [][~last'.success => UNCHANGED registries]_vars

\* a create_task has just been refused for a circular dependency, in a state
\* with a stored task and a capacity record
C10_Witness ==
    /\ last.op = "create_task"
    /\ ~last.success
    /\ last.error = "CircularDependency"
    /\ tasks # <<>>
    /\ agent_capacities # <<>>

----------------------------------------------------------------------------
(* C11 *)

\* the stored tasks that task t depends on
StoredDependencies(ts, t) == Range(ts[t].depends_on) \cap DOMAIN ts

\* the stored tasks reached from the set S in at most n steps of depends_on
RECURSIVE ReachedFrom(_, _, _)
ReachedFrom(ts, S, n) ==
    IF n = 0 THEN S
    ELSE ReachedFrom(ts, S \cup UNION {StoredDependencies(ts, t) : t \in S}, n - 1)

\* C11: in every reachable state no stored task depends on itself, directly or
\* through a chain of stored tasks.
C11_DependencyRelationAcyclic ==
    \A t \in DOMAIN tasks :
        t \notin ReachedFrom(tasks, StoredDependencies(tasks, t), Cardinality(DOMAIN tasks))

----------------------------------------------------------------------------
(* C12 *)

\* some id of depends_on names a stored task whose dependencies hold task_id
BackEdge(ts, task_id, depends_on) ==
    \E d \in Range(depends_on) : d \in DOMAIN ts /\ task_id \in Range(ts[d].depends_on)

\* C12: create with a dependency that names a stored task whose own dependency
\* set holds the id of the new task fails, with CycleDetected when the priority
\* is a level, and adds no task to the store.
C12_BackEdgeRejected ==
    \A priority \in PriorityInputs, depends_on \in DepInputs, assigned_to \in Agents \cup {None} :
        BackEdge(tasks, generate_id(DOMAIN tasks), depends_on) =>
            LET r == create_task(tasks, priority, depends_on, assigned_to, <<>>)
            IN /\ ~r.result.success
               /\ r.tasks = tasks
               /\ priority \in Range(PRIORITY_LEVELS) =>
                     r.result.error = "CircularDependency"

\* task 1 lists id 2, and a create whose dependencies name task 1 has just been
\* refused: the store still holds task 1 alone
C12_Witness ==
    /\ last.op = "create_task" /\ ~last.success /\ last.error = "CircularDependency"
    /\ DOMAIN tasks = {1}
    /\ 2 \in Range(tasks[1].depends_on)
    /\ BackEdge(tasks, 2, <<2, 1>>)
    /\ ~create_task(tasks, "medium", <<2, 1>>, None, <<>>).result.success

----------------------------------------------------------------------------
(* C13 *)

\* C13: of two assign calls for the same task with no operation between them,
\* at most one returns success.
C13_AtMostOneAssignSucceeds ==
    \A t \in DOMAIN tasks, a1 \in Agents, a2 \in Agents, f1 \in BOOLEAN, f2 \in BOOLEAN :
        LET r1 == assign_task(tasks, agent_capacities, t, a1, f1)
            r2 == assign_task(r1.tasks, agent_capacities, t, a2, f2)
        IN ~(r1.result.success /\ r2.result.success)

----------------------------------------------------------------------------
(* C14 *)

\* C14: the write of an unforced assign never takes the in-flight count of its
\* agent above the agent's limit: no other assign comes between the capacity
\* check of the call and its write.
C14_UnforcedAssignKeepsLimit ==
    [][\A c \in Callers :
          (callers[c] # Idle /\ callers'[c] = Idle) =>
              (OverLimit(tasks', agent_capacities', callers[c].agent_id)
                  => OverLimit(tasks, agent_capacities, callers[c].agent_id))]_vars

----------------------------------------------------------------------------
(* C15 *)

\* the members of the team named by team_id, none if no such team is stored
MembersOf(tms, team_id) ==
    IF team_id \in DOMAIN tms THEN Range(tms[team_id].members) ELSE {}

\* C15: the recipients of a broadcast are exactly the agents that are in
\* target_agents or members of the named team, each once, the reported count is
\* the number of these agents, and the message is appended with these recipients.
C15_RecipientsAreDeduplicatedUnion ==
    \A target_agents \in MemberInputs, team_id \in TeamIdInputs :
        \A recipients \in list_set(ExtendedRecipients(teams, target_agents, team_id)) :
            LET r == broadcast_message(messages, target_agents, team_id, recipients)
                sent == r.result.broadcast.recipients
                union == Range(target_agents) \cup MembersOf(teams, team_id)
            IN /\ r.result.success
               /\ Range(sent) = union
               /\ Len(sent) = Cardinality(union)
               /\ r.result.recipients_count = Cardinality(union)
               /\ r.messages = Append(messages, r.result.broadcast)

\* a broadcast to the team of members [a2, a3] has just been stored with the
\* three recipients a1, a2, a3: targets [a1, a2] and the team give it
C15_Witness ==
    /\ last.op = "broadcast_message" /\ last.success
    /\ \E t \in DOMAIN teams :
          /\ teams[t].members = <<"a2", "a3">>
          /\ messages[Len(messages)].team_id = t
          /\ Range(messages[Len(messages)].recipients) = {"a1", "a2", "a3"}
          /\ Len(messages[Len(messages)].recipients) = 3
          /\ \E l \in list_set(ExtendedRecipients(teams, <<"a1", "a2">>, t)) :
                broadcast_message(messages, <<"a1", "a2">>, t, l).result.recipients_count = 3

----------------------------------------------------------------------------
(* C16 *)

\* C16: an unforced assign to an agent that has no Capacity Record and already
\* holds 5 tasks in {assigned, in_progress} fails with CapacityExceeded.
C16_DefaultLimitWithoutRecord ==
    \A t \in DOMAIN tasks, a \in Agents \ DOMAIN agent_capacities :
        (DependenciesCompleted(tasks, t) /\ current_tasks(tasks, a) >= DefaultMaxConcurrent) =>
            LET r == assign_task(tasks, agent_capacities, t, a, FALSE)
            IN ~r.result.success /\ r.result.error = "AtCapacity"

\* C16 amended: an agent with no Capacity Record is held to no limit, the
\* default of 5 included: an unforced assign of a stored task whose dependencies
\* are all completed to such an agent that already holds 5 or more tasks in
\* {assigned, in_progress} succeeds and gives the task to the agent.
C16_NoDefaultLimitWithoutRecord ==
    \A t \in DOMAIN tasks, a \in Agents \ DOMAIN agent_capacities :
        (DependenciesCompleted(tasks, t) /\ current_tasks(tasks, a) >= DefaultMaxConcurrent) =>
            LET r == assign_task(tasks, agent_capacities, t, a, FALSE)
            IN /\ r.result.success
               /\ r.tasks[t].assigned_to = a
               /\ r.tasks[t].status = "assigned"
               /\ current_tasks(r.tasks, a) >= current_tasks(tasks, a)

\* agent a, without Capacity Record, holds 5 tasks, an assign has just been
\* made, and the sixth task is pending: the unforced assign of it to a
\* succeeds and leaves a with 6 tasks
C16_Witness ==
    /\ last.op = "assign_task"
    /\ \E a \in Agents \ DOMAIN agent_capacities, t \in DOMAIN tasks :
          /\ current_tasks(tasks, a) = DefaultMaxConcurrent
          /\ tasks[t].status = "pending"
          /\ LET r == assign_task(tasks, agent_capacities, t, a, FALSE)
             IN r.result.success /\ current_tasks(r.tasks, a) = DefaultMaxConcurrent + 1

----------------------------------------------------------------------------
(* C17 *)

\* C17: assign of a stored task whose dependencies are all completed to an
\* agent that has no Capacity Record succeeds, forced or not, whatever the
\* number of tasks the agent holds, and gives the task to the agent.
C17_NoRecordNoLimit ==
    \A t \in DOMAIN tasks, a \in Agents \ DOMAIN agent_capacities, force \in BOOLEAN :
        DependenciesCompleted(tasks, t) =>
            LET r == assign_task(tasks, agent_capacities, t, a, force)
            IN /\ r.result.success
               /\ r.tasks = [tasks EXCEPT ![t] = Assigned(tasks[t], a)]

\* an unforced or forced assign has just succeeded and leaves agent a, which
\* has no Capacity Record, with MaxLoad tasks, more than the default limit
C17_Witness ==
    /\ last.op = "assign_task" /\ last.success
    /\ \E a \in Agents \ DOMAIN agent_capacities :
          /\ current_tasks(tasks, a) = MaxLoad
          /\ current_tasks(tasks, a) > DefaultMaxConcurrent
          /\ \A t \in DOMAIN tasks :
                assign_task(tasks, agent_capacities, t, a, FALSE).result.success

----------------------------------------------------------------------------
(* C18 *)

\* task ids that name no stored task
UnknownTaskIds == (1..(MaxTasks + 1)) \ DOMAIN tasks

\* C18: assign and complete with a task id that is not in the store, and expand
\* with a workflow id that is not in the workflow registry, return a NotFound
\* failure and leave the task store (and the workflow registry) as it was.
C18_UnknownIdReturnsNotFound ==
    /\ \A task_id \in UnknownTaskIds, a \in Agents, force \in BOOLEAN :
          LET r == assign_task(tasks, agent_capacities, task_id, a, force)
          IN /\ ~r.result.success
             /\ r.result.error = "TaskNotFound"
             /\ r.tasks = tasks
    /\ \A task_id \in UnknownTaskIds, arg \in CompleteInputs :
          LET r == complete_task(tasks, task_id, arg[1], arg[2])
          IN /\ ~r.result.success
             /\ r.result.error = "TaskNotFound"
             /\ r.tasks = tasks
    /\ \A workflow_id \in Range(WfIdPool) \ DOMAIN workflows :
          LET r == execute_workflow(tasks, workflows, workflow_id, TRUE)
          IN /\ ~r.result.success
             /\ r.result.error = "WorkflowNotFound"
             /\ r.tasks = tasks
             /\ r.workflows = workflows

\* a complete has just failed for an unknown task id, in a store that holds
\* task 1 and not task 2
C18_Witness ==
    /\ last.op = "complete_task" /\ ~last.success /\ last.error = "TaskNotFound"
    /\ DOMAIN tasks = {1}
    /\ 2 \in UnknownTaskIds
    /\ ~assign_task(tasks, agent_capacities, 2, "a1", TRUE).result.success
    /\ ~execute_workflow(tasks, workflows, "wf_1", TRUE).result.success

----------------------------------------------------------------------------
(* C19 *)

\* C19: complete(T, ...) leaves every stored task other than T as it was,
\* the tasks it reports as unblocked included, and adds or removes no task.
C19_CompleteChangesOnlyItsTask ==
    \A t \in DOMAIN tasks, arg \in CompleteInputs :
        LET r == complete_task(tasks, t, arg[1], arg[2])
        IN /\ DOMAIN r.tasks = DOMAIN tasks
           /\ \A u \in DOMAIN tasks \ {t} : r.tasks[u] = tasks[u]
           /\ \A u \in Range(r.result.unblocked_tasks) :
                 u # t => r.tasks[u].status = "pending"

\* task 1 has just been completed; task 2, which depends on it, was reported
\* unblocked and is still pending, without assignee and without result
C19_Witness ==
    /\ last.op = "complete_task" /\ last.success
    /\ DOMAIN tasks = {1, 2}
    /\ tasks[1].status = "completed" /\ tasks[1].result = "done"
    /\ tasks[2].depends_on = <<1>>
    /\ tasks[2].status = "pending"
    /\ tasks[2].assigned_to = None
    /\ tasks[2].result = None
    /\ 2 \in Range(complete_task(tasks, 1, "done", "completed").result.unblocked_tasks)

----------------------------------------------------------------------------
(* C20 *)

\* C20: a successful create adds exactly one task and changes no other; the new
\* task has status assigned when an assignee is given and pending otherwise,
\* the given assignee, the given dependency list, and no result.
C20_CreateAddsOneTask ==
    \A priority \in PriorityInputs, depends_on \in DepInputs, assigned_to \in Agents \cup {None} :
        LET r == create_task(tasks, priority, depends_on, assigned_to, <<>>)
            new == r.result.task_id
        IN r.result.success =>
              /\ DOMAIN r.tasks = DOMAIN tasks \cup {new}
              /\ new \notin DOMAIN tasks
              /\ \A u \in DOMAIN tasks : r.tasks[u] = tasks[u]
              /\ r.tasks[new].status = (IF assigned_to # None THEN "assigned" ELSE "pending")
              /\ r.tasks[new].assigned_to = assigned_to
              /\ r.tasks[new].depends_on = depends_on
              /\ r.tasks[new].result = None
              /\ r.tasks[new].completed_at = None

\* task 2 has just been created for agent a1 with dependency list [1]: it is
\* assigned and has no result; task 1, created without assignee, is pending
C20_Witness ==
    /\ last.op = "create_task" /\ last.success
    /\ DOMAIN tasks = {1, 2}
    /\ tasks[1].status = "pending" /\ tasks[1].assigned_to = None
    /\ tasks[2].status = "assigned" /\ tasks[2].assigned_to = "a1"
    /\ tasks[2].depends_on = <<1>>
    /\ tasks[2].result = None

----------------------------------------------------------------------------
(* C21 *)

\* C21: create with a priority that is none of the four levels fails with
\* InvalidArgument and stores nothing; every stored task has one of the four
\* levels as priority, and so has every task in the store after an expansion.
C21_PriorityIsALevel ==
    /\ \A t \in DOMAIN tasks : tasks[t].priority \in Range(PRIORITY_LEVELS)
    /\ \A priority \in PriorityInputs, depends_on \in DepInputs, assigned_to \in Agents \cup {None} :
          LET r == create_task(tasks, priority, depends_on, assigned_to, <<>>)
          IN /\ priority \notin Range(PRIORITY_LEVELS) =>
                   /\ ~r.result.success
                   /\ r.result.error = "InvalidPriority"
                   /\ r.tasks = tasks
             /\ \A t \in DOMAIN r.tasks : r.tasks[t].priority \in Range(PRIORITY_LEVELS)
    /\ \A w \in DOMAIN workflows, auto_assign \in BOOLEAN :
          LET r == execute_workflow(tasks, workflows, w, auto_assign)
          IN \A t \in DOMAIN r.tasks : r.tasks[t].priority \in Range(PRIORITY_LEVELS)

\* the workflow [A, B with priority "urgent"] has just been expanded: the store
\* holds the task of A alone, with priority medium
C21_Witness ==
    /\ last.op = "execute_workflow" /\ last.success
    /\ \E w \in DOMAIN workflows :
          /\ workflows[w].steps = <<[name |-> "A"], [name |-> "B", priority |-> "urgent"]>>
          /\ DOMAIN workflows[w].task_ids = {"A"}
    /\ DOMAIN tasks = {1}
    /\ tasks[1].priority = "medium"
    /\ ~create_task(tasks, "urgent", <<>>, None, <<>>).result.success

----------------------------------------------------------------------------
(* C22 *)

InFlight == {"assigned", "in_progress"}

\* C22: a successful assign(T, A) leaves T assigned to A and every other task
\* as it was; the in-flight count of every other agent B is what it was, less
\* one when T was in flight with B, and T is no longer B's.
C22_AssignMovesTheTask ==
    \A t \in DOMAIN tasks, a \in Agents, force \in BOOLEAN :
        LET r == assign_task(tasks, agent_capacities, t, a, force)
        IN r.result.success =>
              /\ r.tasks[t].status = "assigned"
              /\ r.tasks[t].assigned_to = a
              /\ DOMAIN r.tasks = DOMAIN tasks
              /\ \A u \in DOMAIN tasks \ {t} : r.tasks[u] = tasks[u]
              /\ \A b \in Agents \ {a} :
                    /\ r.tasks[t].assigned_to # b
                    /\ current_tasks(r.tasks, b) =
                          current_tasks(tasks, b)
                              - (IF tasks[t].assigned_to = b /\ tasks[t].status \in InFlight
                                 THEN 1 ELSE 0)

\* an assign has just succeeded; task 1 is assigned to a1 and task 2 to a2, and
\* assigning task 2 to a1 takes it from a2's workload, which falls to 0
C22_Witness ==
    /\ last.op = "assign_task" /\ last.success
    /\ DOMAIN tasks = {1, 2}
    /\ tasks[1].status = "assigned" /\ tasks[1].assigned_to = "a1"
    /\ tasks[2].status = "assigned" /\ tasks[2].assigned_to = "a2"
    /\ LET r == assign_task(tasks, agent_capacities, 2, "a1", TRUE)
       IN /\ r.result.success
          /\ current_tasks(r.tasks, "a2") = 0
          /\ current_tasks(r.tasks, "a1") = 2

----------------------------------------------------------------------------
(* C23 *)

\* every task of the store `before` is in the store `after` with the same id
\* and the same dependency list
Kept(before, after) ==
    \A t \in DOMAIN before :
        /\ t \in DOMAIN after
        /\ after[t].id = before[t].id
        /\ after[t].depends_on = before[t].depends_on

----------------------------------------------------------------------------
(* C24 *)

\* max_concurrent values around both ends of the range
CapacityProbes == {-1, 0, 1, 2, 19, 20, 21, 22}

\* C24: set-capacity with a limit below 1 or above 20 fails with
\* InvalidArgument and leaves the capacity registry as it was; with a limit in
\* 1..20 it succeeds; every stored Capacity Record holds a limit in 1..20.
C24_CapacityLimitInRange ==
    /\ \A a \in DOMAIN agent_capacities :
          /\ 1 <= agent_capacities[a].max_concurrent
          /\ agent_capacities[a].max_concurrent <= 20
    /\ \A a \in Agents, max_concurrent \in CapacityProbes :
          LET r == set_agent_capacity(agent_capacities, a, max_concurrent)
          IN IF max_concurrent < 1 \/ max_concurrent > 20
             THEN /\ ~r.result.success
                  /\ r.result.error = "CapacityOutOfRange"
                  /\ r.agent_capacities = agent_capacities
             ELSE /\ r.result.success
                  /\ r.agent_capacities[a].max_concurrent = max_concurrent

\* a set-capacity has just been refused; a1 keeps its record of limit 1 and
\* a2 stays without record
C24_Witness ==
    /\ last.op = "set_agent_capacity" /\ ~last.success
    /\ last.error = "CapacityOutOfRange"
    /\ DOMAIN agent_capacities = {"a1"}
    /\ agent_capacities["a1"].max_concurrent = 1
    /\ set_agent_capacity(agent_capacities, "a2", 21).agent_capacities = agent_capacities

----------------------------------------------------------------------------
(* C25 *)

----------------------------------------------------------------------------
(* C26 *)

\* C26: a workflow is created until it is expanded (no execution stamp, no
\* mapping) and executing afterwards; an expand leaves it executing, with a
\* mapping that gives every step name of the workflow a task that is in the
\* store and was created by this expand.
C26_ExecutingWithFullMapping ==
    \A w \in DOMAIN workflows :
        /\ workflows[w].status \in {"created", "executing"}
        /\ workflows[w].status = "created" =>
              workflows[w].executed_at = None /\ workflows[w].task_ids = <<>>
        /\ \A auto_assign \in BOOLEAN :
              LET r == execute_workflow(tasks, workflows, w, auto_assign)
                  task_ids == r.workflows[w].task_ids
              IN /\ r.result.success
                 /\ r.workflows[w].status = "executing"
                 /\ \A i \in 1..Len(workflows[w].steps) :
                       /\ workflows[w].steps[i].name \in DOMAIN task_ids
                       /\ task_ids[workflows[w].steps[i].name] \in DOMAIN r.tasks \ DOMAIN tasks

----------------------------------------------------------------------------
(* C27 *)

\* C27: a second expand of a workflow creates one new task for every step, leaves
\* the tasks of the first expansion as they are, and replaces the mapping of
\* the workflow by one that gives every step name a task of the second expansion.
C27_SecondExpandCreatesAllAgain ==
    \A w \in DOMAIN workflows, auto_assign \in BOOLEAN :
        workflows[w].status = "executing" =>
            LET r == execute_workflow(tasks, workflows, w, auto_assign)
                created == DOMAIN r.tasks \ DOMAIN tasks
                task_ids == r.workflows[w].task_ids
            IN /\ r.result.success
               /\ Cardinality(created) = Len(workflows[w].steps)
               /\ Len(r.result.created_tasks) = Len(workflows[w].steps)
               /\ \A t \in DOMAIN tasks : r.tasks[t] = tasks[t]
               /\ DOMAIN task_ids = {workflows[w].steps[i].name : i \in 1..Len(workflows[w].steps)}
               /\ \A n \in DOMAIN task_ids : task_ids[n] \in created

----------------------------------------------------------------------------
(* C28 *)

\* C28: after a complete(T, result, status) that reports success T is completed
\* or failed, and every stored task has one of the defined statuses.
C28_CompleteSetsTerminalStatus ==
    /\ \A t \in DOMAIN tasks : tasks[t].status \in Range(TASK_STATUSES)
    /\ \A t \in DOMAIN tasks, arg \in CompleteInputs :
          LET r == complete_task(tasks, t, arg[1], arg[2])
          IN r.result.success => r.tasks[t].status \in Terminal

----------------------------------------------------------------------------
(* C29 *)

\* C29: the dashboard call leaves the task, workflow, team, capacity,
\* sync-point and message registries as they were, and a second call right
\* after it returns the same snapshot.
C29_DashboardReadsOnly ==
    LET r == get_orchestration_dashboard(tasks, workflows, teams, agent_capacities,
                                         sync_points, messages)
        q == get_orchestration_dashboard(r.tasks, r.workflows, r.teams,
                                         r.agent_capacities, r.sync_points, r.messages)
    IN /\ r.result.success
       /\ <<r.tasks, r.workflows, r.teams, r.agent_capacities, r.sync_points, r.messages>>
             = registries
       /\ q.result = r.result
       /\ <<q.tasks, q.workflows, q.teams, q.agent_capacities, q.sync_points, q.messages>>
             = registries

\* the dashboard has just been read in a state with a completed task, a pending
\* task and a capacity record, all still there
C29_Witness ==
    /\ last.op = "get_orchestration_dashboard" /\ last.success
    /\ DOMAIN tasks = {1, 2}
    /\ tasks[1].status = "completed"
    /\ tasks[2].status = "pending"
    /\ agent_capacities # <<>>

----------------------------------------------------------------------------
(* C30 *)

\* the workload the dashboard d reports for agent a: its entry, 0 without entry
ReportedWorkload(d, a) ==
    IF a \in DOMAIN d.agent_workloads THEN d.agent_workloads[a] ELSE 0

\* C30: in the dashboard the per-status counts sum to the number of tasks, the
\* per-priority counts sum to the number of tasks that are neither completed
\* nor failed, and the workload of every agent is the number of tasks with that
\* assignee and status assigned or in_progress, the count that assign compares
\* with the limit; no workload is reported for anyone else.
C30_DashboardAgreesWithRegistries ==
    LET d == get_orchestration_dashboard(tasks, workflows, teams, agent_capacities,
                                         sync_points, messages).result.dashboard
    IN /\ d.tasks.total = Cardinality(DOMAIN tasks)
       /\ SumValues(d.tasks.by_status, DOMAIN d.tasks.by_status) = d.tasks.total
       /\ SumValues(d.tasks.by_priority, DOMAIN d.tasks.by_priority)
             = Cardinality({t \in DOMAIN tasks : tasks[t].status \notin Terminal})
       /\ \A a \in Agents : ReportedWorkload(d, a) = current_tasks(tasks, a)
       /\ DOMAIN d.agent_workloads \subseteq Agents

\* the dashboard has just been read with task 1 in progress with a1 and task 2
\* failed: it reports workload 1 for a1 alone and one task under priority medium
C30_Witness ==
    /\ last.op = "get_orchestration_dashboard"
    /\ DOMAIN tasks = {1, 2}
    /\ tasks[1].status = "in_progress" /\ tasks[1].assigned_to = "a1"
    /\ tasks[2].status = "failed"
    /\ LET d == get_orchestration_dashboard(tasks, workflows, teams, agent_capacities,
                                            sync_points, messages).result.dashboard
       IN /\ d.agent_workloads = [a \in {"a1"} |-> 1]
          /\ d.tasks.by_status["in_progress"] = 1
          /\ d.tasks.by_status["failed"] = 1
          /\ d.tasks.by_priority["medium"] = 1

----------------------------------------------------------------------------
(* C31 *)

\* C31: every broadcast returns success and appends exactly one record to the
\* log; a team id that is empty, absent or names no stored team adds no
\* recipient, and with no target agent either the recipient list is empty.
C31_BroadcastAlwaysSucceeds ==
    \A target_agents \in MemberInputs, team_id \in TeamIdInputs \cup {""} :
        \A recipients \in list_set(ExtendedRecipients(teams, target_agents, team_id)) :
            LET r == broadcast_message(messages, target_agents, team_id, recipients)
            IN /\ r.result.success
               /\ Len(r.messages) = Len(messages) + 1
               /\ SubSeq(r.messages, 1, Len(messages)) = messages
               /\ team_id \notin DOMAIN teams =>
                     /\ Range(r.result.broadcast.recipients) = Range(target_agents)
                     /\ target_agents = <<>> =>
                           /\ r.result.broadcast.recipients = <<>>
                           /\ r.result.recipients_count = 0

\* a broadcast without targets to the unknown team "team_x" has just been
\* appended, with no recipient, after an earlier broadcast
C31_Witness ==
    /\ last.op = "broadcast_message" /\ last.success
    /\ Len(messages) = 2
    /\ messages[2].team_id = "team_x"
    /\ messages[2].recipients = <<>>
    /\ "team_x" \notin DOMAIN teams

----------------------------------------------------------------------------
(* C32 *)

\* C32: a sync point is created waiting, with an empty check-in list and the
\* required agents it was given, an empty list included; no step removes a
\* sync point or changes one, so every sync point is waiting, without check-in
\* and with its original required agents in every state.
C32_SyncPointsStayAsCreated ==
    [][/\ \A required_agents \in MemberInputs :
             LET r == create_sync_point(sync_points, required_agents)
                 sync == r.sync_points[r.result.sync_id]
             IN /\ r.result.success
                /\ r.result.sync_id \notin DOMAIN sync_points
                /\ sync.status = "waiting"
                /\ sync.checked_in = <<>>
                /\ sync.required_agents = required_agents
       /\ \A s \in DOMAIN sync_points :
             s \in DOMAIN sync_points' /\ sync_points'[s] = sync_points[s]
       /\ \A s \in DOMAIN sync_points' :
             /\ sync_points'[s].status = "waiting"
             /\ sync_points'[s].checked_in = <<>>]_vars

\* a second sync point has just been created; one waits for a1 and a2, the
\* other for no one, and both are waiting without check-in
C32_Witness ==
    /\ last.op = "create_sync_point" /\ last.success
    /\ DOMAIN sync_points = {"sync_1", "sync_2"}
    /\ sync_points["sync_1"].required_agents = <<"a1", "a2">>
    /\ sync_points["sync_2"].required_agents = <<>>
    /\ \A s \in DOMAIN sync_points :
          sync_points[s].status = "waiting" /\ sync_points[s].checked_in = <<>>

----------------------------------------------------------------------------
(* C33 *)

\* C33: when agent A has a Capacity Record with limit L and holds exactly L
\* in-flight tasks, the assign without force of a dependency-free task U to A
\* fails with AtCapacity; after complete of one of A's in-flight tasks, with
\* status completed or failed, the same assign succeeds.
C33_CompletingFreesCapacity ==
    \A a \in Agents, t \in DOMAIN tasks, u \in DOMAIN tasks, c \in CompleteInputs :
        (/\ a \in DOMAIN agent_capacities
         /\ current_tasks(tasks, a) = agent_capacities[a].max_concurrent
         /\ tasks[t].assigned_to = a
         /\ tasks[t].status \in InFlight
         /\ tasks[u].depends_on = <<>>
         /\ c[2] \in Terminal)
        => LET before == assign_task(tasks, agent_capacities, u, a, FALSE)
               done == complete_task(tasks, t, c[1], c[2])
               after == assign_task(done.tasks, agent_capacities, u, a, FALSE)
           IN /\ ~before.result.success
              /\ before.result.error = "AtCapacity"
              /\ done.result.success
              /\ after.result.success
              /\ after.tasks[u].assigned_to = a
              /\ after.tasks[u].status = "assigned"

\* a1 has limit 1 and held task 1 alone; task 1 has just been completed as
\* failed, and the assign of the dependency-free pending task 2 to a1, without
\* force, now succeeds
C33_Witness ==
    /\ last.op = "complete_task" /\ last.success
    /\ DOMAIN tasks = {1, 2}
    /\ "a1" \in DOMAIN agent_capacities
    /\ agent_capacities["a1"].max_concurrent = 1
    /\ tasks[1].assigned_to = "a1"
    /\ tasks[1].status = "failed"
    /\ tasks[2].status = "pending"
    /\ tasks[2].depends_on = <<>>
    /\ current_tasks(tasks, "a1") = 0
    /\ assign_task(tasks, agent_capacities, 2, "a1", FALSE).result.success

----------------------------------------------------------------------------
(* C34 *)

\* every assign of a task of ts that lists d as a dependency fails with
\* DependencyNotCompleted
DependentsBlocked(ts, caps, d) ==
    \A u \in DOMAIN ts, a \in Agents, force \in BOOLEAN :
        d \in Range(ts[u].depends_on)
        => LET r == assign_task(ts, caps, u, a, force)
           IN ~r.result.success /\ r.result.error = "DependencyNotCompleted"

\* C34: once task D has status failed, every assign of a task whose
\* dependency list contains D fails with DependencyNotCompleted, in that state
\* and after every further step.
C34_FailedPrerequisiteBlocksForGood ==
    [][\A d \in DOMAIN tasks :
          tasks[d].status = "failed"
          => /\ DependentsBlocked(tasks, agent_capacities, d)
             /\ DependentsBlocked(tasks', agent_capacities', d)]_vars

----------------------------------------------------------------------------
(* C35 *)

\* the tasks that expansions of workflow w created
WorkflowTasks(ts, w) == {t \in DOMAIN ts : ts[t].tags = <<"workflow", w>>}

\* some task of w is not completed / w has tasks and all are completed
RunPending(ts, w) == \E t \in WorkflowTasks(ts, w) : ts[t].status # "completed"

RunDone(ts, w) ==
    /\ WorkflowTasks(ts, w) # {}
    /\ \A t \in WorkflowTasks(ts, w) : ts[t].status = "completed"

\* a task of w that is not completed, has all its dependencies completed and
\* is assigned by assign with force to whatever agent
ReadyTasks(ts, caps, w) ==
    {t \in WorkflowTasks(ts, w) :
        /\ ts[t].status # "completed"
        /\ DependenciesCompleted(ts, t)
        /\ \A a \in Agents : assign_task(ts, caps, t, a, TRUE).result.success}

\* C35: the tasks that one expand creates depend only on tasks created earlier
\* in that expand; while no task of the workflow is failed, every state where
\* some task of the workflow is not completed has a not-completed task of the
\* workflow with all dependencies completed whose assign with force succeeds;
\* a caller that keeps assigning and completing such tasks gets every task of
\* the workflow completed.
C35_ExpandedWorkflowMakesProgress ==
    /\ [][\A t \in DOMAIN tasks' \ DOMAIN tasks :
             \A d \in Range(tasks'[t].depends_on) :
                 d \in DOMAIN tasks' \ DOMAIN tasks /\ d < t]_vars
    /\ [](\A w \in DOMAIN workflows :
             (/\ RunPending(tasks, w)
              /\ \A t \in WorkflowTasks(tasks, w) : tasks[t].status # "failed")
             => ReadyTasks(tasks, agent_capacities, w) # {})
    /\ \A w \in Range(WfIdPool) : RunPending(tasks, w) ~> RunDone(tasks, w)

\* the workflow A, B after A, C after A and B has been expanded and run to the
\* end by an agent that has a Capacity Record of limit 1: all three tasks are
\* completed, the last complete having just returned
C35_Witness ==
    /\ last.op = "complete_task" /\ last.success
    /\ "wf_1" \in DOMAIN workflows
    /\ workflows["wf_1"].status = "executing"
    /\ WorkflowTasks(tasks, "wf_1") = {1, 2, 3}
    /\ tasks[2].depends_on = <<1>>
    /\ tasks[3].depends_on = <<1, 2>>
    /\ RunDone(tasks, "wf_1")
    /\ \A t \in {1, 2, 3} : tasks[t].assigned_to = "a1"
    /\ "a1" \in DOMAIN agent_capacities
    /\ agent_capacities["a1"].max_concurrent = 1

----------------------------------------------------------------------------
(* C36 *)

\* C36: for every pending task U that depends on another task T, after
\* complete(T, completed) U is among the unblocked tasks returned exactly when
\* assign(U, agent) with force passes the dependency check in that state, also
\* when U's dependency list holds an id that names no stored task.
C36_AssignAndCompleteAgree ==
    \A t \in DOMAIN tasks, u \in DOMAIN tasks, a \in Agents :
        (u # t /\ tasks[u].status = "pending" /\ t \in Range(tasks[u].depends_on))
        => LET done == complete_task(tasks, t, "done", "completed")
               r == assign_task(done.tasks, agent_capacities, u, a, TRUE)
           IN u \in Range(done.result.unblocked_tasks)
                 <=> r.result.error # "DependencyNotCompleted"

----------------------------------------------------------------------------
(* C37 *)

\* C37: in every state a task has a completion stamp and a result exactly
\* when its status is completed or failed; a pending or assigned task has
\* neither.
C37_StampAndResultIffTerminal ==
    \A t \in DOMAIN tasks :
        /\ tasks[t].status \in Terminal
              => tasks[t].completed_at # None /\ tasks[t].result # None
        /\ tasks[t].status \notin Terminal
              => tasks[t].completed_at = None /\ tasks[t].result = None

----------------------------------------------------------------------------
(* C38 *)

\* C38: when complete is called with status completed or failed only, every
\* task has status pending, assigned, completed or failed in every state, none
\* in_progress or blocked; complete of a pending task succeeds and takes it to
\* completed or failed directly, without an assign in between.
C38_FourStatusesReachable ==
    /\ \A t \in DOMAIN tasks :
          tasks[t].status \in {"pending", "assigned", "completed", "failed"}
    /\ \A t \in DOMAIN tasks, arg \in FinalCompleteInputs :
          tasks[t].status = "pending"
          => LET r == complete_task(tasks, t, arg[1], arg[2])
             IN /\ r.result.success
                /\ r.tasks[t].status = arg[2]
                /\ r.tasks[t].assigned_to = tasks[t].assigned_to
                /\ \A u \in DOMAIN tasks \ {t} : r.tasks[u].status = tasks[u].status

\* task 1 is completed and task 2, which depends on it, has just been failed;
\* neither was ever assigned
C38_Witness ==
    /\ last.op = "complete_task" /\ last.success
    /\ DOMAIN tasks = {1, 2}
    /\ tasks[1].status = "completed" /\ tasks[1].assigned_to = None
    /\ tasks[2].status = "failed" /\ tasks[2].assigned_to = None
    /\ tasks[2].depends_on = <<1>>

----------------------------------------------------------------------------
(* C39 *)

\* pending_messages of the dashboard of the given registries
PendingMessages(ts, wfs, tms, caps, sps, msgs) ==
    get_orchestration_dashboard(ts, wfs, tms, caps, sps, msgs).result.dashboard.pending_messages

\* C39: every step leaves all records of the broadcast log in place and as
\* they were; a broadcast appends one record and no other step changes the
\* log, also when teams are created after a broadcast that named them; the
\* dashboard's pending_messages is the length of the log, the number of
\* broadcasts made so far, and no step lowers it.
C39_BroadcastLogAppendOnly ==
    [][/\ Len(messages') >= Len(messages)
       /\ SubSeq(messages', 1, Len(messages)) = messages
       /\ Len(messages') =
             Len(messages) + (IF last'.op = "broadcast_message" THEN 1 ELSE 0)
       /\ \A i \in 1..Len(messages') : messages'[i].id = i
       /\ PendingMessages(tasks', workflows', teams', agent_capacities',
                          sync_points', messages') = Len(messages')
       /\ PendingMessages(tasks', workflows', teams', agent_capacities',
                          sync_points', messages')
             >= PendingMessages(tasks, workflows, teams, agent_capacities,
                                sync_points, messages)]_vars

\* the first broadcast named team_1 before any team existed and reached a1
\* alone; team_1 was created afterwards with member a2, a second broadcast was
\* made, and the dashboard has just been read: the first record is as sent
C39_Witness ==
    /\ last.op = "get_orchestration_dashboard" /\ last.success
    /\ Len(messages) = 2
    /\ messages[1].team_id = "team_1"
    /\ messages[1].recipients = <<"a1">>
    /\ "team_1" \in DOMAIN teams
    /\ teams["team_1"].members = <<"a2">>
    /\ PendingMessages(tasks, workflows, teams, agent_capacities,
                       sync_points, messages) = 2

====
